---- MODULE Spec2Model ----
(***************************************************************************)
(* SocialX AI engine: personality scoring, pattern learning and similarity *)
(* search.  Every operation is a synchronous request/response computation; *)
(* the model keeps the request being served, its response, the calls made  *)
(* to the external collaborators while serving it, and the one object that *)
(* outlives a request and is written by the code (the TF-IDF vectorizer).   *)
(*                                                                         *)
(* Numbers: scores and similarities are exact rationals kept as integers   *)
(* in thousandths (0.5 is 500); avg_per_day is kept in hundredths.          *)
(* A Python call is a record [raised, value]: raised = TRUE stands for an  *)
(* exception leaving the call.                                             *)
(***************************************************************************)
EXTENDS Integers, Sequences, FiniteSets, TLC

VARIABLES req, phase, outcome, resp, calls, tfidf

vars == <<req, phase, outcome, resp, calls, tfidf>>

----------------------------------------------------------------------------
(* Bounds of the model *)

MaxTexts == 2

MaxDay == 3

MaxTweets == 3

MaxDocs == 3

MaxClusters == 3

MaxCands == 3

MaxTopK == 3

MaxReqTweets == 2

MaxInteractions == 1

MaxEngagements == 3

----------------------------------------------------------------------------
(* Generic helpers *)

Ok(v) == [raised |-> FALSE, value |-> v]

Raise == [raised |-> TRUE, value |-> "exception"]

Range(s) == {s[i] : i \in 1..Len(s)}

SeqsUpTo(S, n) == UNION {[1..k -> S] : k \in 0..n}

RECURSIVE SumSeq(_)
SumSeq(s) == IF s = <<>> THEN 0 ELSE s[1] + SumSeq(Tail(s))

RECURSIVE Flatten(_)
Flatten(ss) == IF ss = <<>> THEN <<>> ELSE ss[1] \o Flatten(Tail(ss))

Count(s, x) == Cardinality({i \in 1..Len(s) : s[i] = x})

CountIn(s, S) == Cardinality({i \in 1..Len(s) : s[i] \in S})

Max2(a, b) == IF a >= b THEN a ELSE b

Min2(a, b) == IF a <= b THEN a ELSE b

\* Python round(): the quotient num/den (den > 0) rounded to the nearest
\* integer, an exact half going to the even neighbour.
RoundHalfEven(num, den) ==
  LET q == num \div den
      r == num % den
  IN  IF 2 * r < den THEN q
      ELSE IF 2 * r > den THEN q + 1
      ELSE IF q % 2 = 0 THEN q ELSE q + 1

----------------------------------------------------------------------------
(* personality/analyzer.py *)

Traits == <<"openness", "conscientiousness", "extraversion", "agreeableness", "neuroticism">>

\* TRAIT_INDICATORS; sentiment_weight in tenths.
TRAIT_INDICATORS ==
  [openness |->
     [words |-> {"creative", "innovative", "curious", "imaginative", "explore", "new", "idea", "art"},
      pos_tags |-> <<"ADJ", "ADV">>, sentiment_weight |-> 3],
   conscientiousness |->
     [words |-> {"plan", "organize", "efficient", "reliable", "careful", "detail", "goal", "schedule"},
      pos_tags |-> <<"VERB", "NOUN">>, sentiment_weight |-> 2],
   extraversion |->
     [words |-> {"social", "outgoing", "energetic", "enthusiastic", "party", "people", "talk", "fun"},
      pos_tags |-> <<"INTJ">>, sentiment_weight |-> 4],
   agreeableness |->
     [words |-> {"kind", "helpful", "trust", "cooperative", "compassionate", "caring", "empathy", "support"},
      pos_tags |-> <<"ADJ">>, sentiment_weight |-> 5],
   neuroticism |->
     [words |-> {"stress", "worry", "anxious", "nervous", "unstable", "emotional", "moody", "fear"},
      pos_tags |-> <<"ADJ", "NOUN">>, sentiment_weight |-> -4]]

\* What the external tagger and sentiment model return for a text, and the
\* surface statistics of its characters.  A text of the model is the record
\* of these: lemmas (stop words and non-alphabetic tokens removed), the POS
\* tag of every token, the polarity in tenths, and the character counts.
LemmaLists == {<<>>, <<"kind">>, <<"creative", "plan", "walk">>}

Sentiments == {-10, 0, 10}

\* The tags of a text's tokens with the character counts of the same text.
TextForms ==
  {[pos |-> <<"ADJ">>,
    surface |-> [length |-> 5, words |-> 1, punct |-> 0, emoji |-> 0, questions |-> 0, exclaims |-> 0]],
   [pos |-> <<"ADJ", "NOUN", "INTJ">>,
    surface |-> [length |-> 14, words |-> 3, punct |-> 3, emoji |-> 1, questions |-> 1, exclaims |-> 2]]}

EmptyText ==
  [lemmas |-> <<>>, pos |-> <<>>, sentiment |-> 0,
   surface |-> [length |-> 0, words |-> 0, punct |-> 0, emoji |-> 0, questions |-> 0, exclaims |-> 0]]

SampleTexts ==
  {EmptyText} \cup
  {[lemmas |-> l, pos |-> f.pos, sentiment |-> s, surface |-> f.surface] :
     l \in LemmaLists, f \in TextForms, s \in Sentiments}

\* _extract_features: the tagger fails (tagger_ok = FALSE) or returns the
\* text's lemmas, tags and polarity.
_extract_features(text, tagger_ok) ==
  IF ~tagger_ok THEN Raise
  ELSE Ok([words |-> text.lemmas, pos_tags |-> text.pos,
           sentiment |-> text.sentiment, length |-> text.surface.length])

\* The unclamped score of a trait as a fraction [num, den] of 1:
\* 0.5 + 0.3 * word_ratio + 0.2 * pos_ratio + mean(sentiments) * weight.
RawTraitScore(indicators, features) ==
  LET n  == Len(features.sentiments)
      tw == CountIn(features.word_freq, indicators.words)
      T  == Len(features.word_freq)
      tp == SumSeq([i \in 1..Len(indicators.pos_tags) |->
                      Count(features.pos_tags, indicators.pos_tags[i])])
      P  == Len(features.pos_tags)
      T1 == Max2(T, 1)
      P1 == Max2(P, 1)
      S  == SumSeq(features.sentiments)
  IN  [num |-> 50 * n * T1 * P1
               + (IF T > 0 THEN 30 * tw * n * P1 ELSE 0)
               + (IF P > 0 THEN 20 * tp * n * T1 ELSE 0)
               + S * indicators.sentiment_weight * T1 * P1,
       den |-> 100 * n * T1 * P1]

\* max(0.0, min(1.0, score)) on a fraction.
NoClampUnit(f) == f

ClampUnit(f) == [num |-> Max2(0, Min2(f.den, f.num)), den |-> f.den]

_calculate_trait_score_truncated(indicators, features) ==
  LET c == ClampUnit(RawTraitScore(indicators, features))
  IN  (1000 * c.num) \div c.den

\* _calculate_trait_score: clamp, then round(score, 3); in thousandths.
_calculate_trait_score(indicators, features) ==
  LET c == ClampUnit(RawTraitScore(indicators, features))
  IN  RoundHalfEven(1000 * c.num, c.den)

_neutral_personality ==
  [openness |-> 500, conscientiousness |-> 500, extraversion |-> 500,
   agreeableness |-> 500, neuroticism |-> 500]

_default_personality ==
  [openness |-> 500, conscientiousness |-> 500, extraversion |-> 500,
   agreeableness |-> 500, neuroticism |-> 300]

\* analyze_texts: returns [raised, value, extracted] where extracted is the
\* number of _extract_features calls made.
analyze_texts(texts, tagger_ok) ==
  IF texts = <<>> THEN [raised |-> FALSE, value |-> _default_personality, extracted |-> 0]
  ELSE IF ~tagger_ok THEN [raised |-> TRUE, value |-> "exception", extracted |-> 1]
  ELSE
    LET feats == [i \in 1..Len(texts) |-> _extract_features(texts[i], TRUE).value]
        all_features ==
          [word_freq  |-> Flatten([i \in 1..Len(texts) |-> feats[i].words]),
           pos_tags   |-> Flatten([i \in 1..Len(texts) |-> feats[i].pos_tags]),
           sentiments |-> [i \in 1..Len(texts) |-> feats[i].sentiment]]
    IN  [raised |-> FALSE,
         value |-> [t \in Range(Traits) |->
                      _calculate_trait_score(TRAIT_INDICATORS[t], all_features)],
         extracted |-> Len(texts)]

\* get_personality_description: the phrases, joined by ", ".
RECURSIVE JoinComma(_)
JoinComma(ps) ==
  IF Len(ps) = 1 THEN ps[1] ELSE ps[1] \o ", " \o JoinComma(Tail(ps))

HighTraitInclusive(score) == score >= 600

\* scores[trait] > 0.6, the score in thousandths.
HighTrait(score) == score > 600

\* scores["neuroticism"] < 0.4
LowTrait(score) == score < 400

get_personality_description(scores) ==
  LET descriptions ==
        (IF HighTrait(scores["openness"]) THEN <<"creative and open to new experiences">> ELSE <<>>)
        \o (IF HighTrait(scores["conscientiousness"]) THEN <<"organized and detail-oriented">> ELSE <<>>)
        \o (IF HighTrait(scores["extraversion"]) THEN <<"outgoing and energetic">> ELSE <<>>)
        \o (IF HighTrait(scores["agreeableness"]) THEN <<"friendly and cooperative">> ELSE <<>>)
        \o (IF LowTrait(scores["neuroticism"]) THEN <<"emotionally stable">> ELSE <<>>)
  IN  IF descriptions = <<>> THEN "balanced and adaptable" ELSE JoinComma(descriptions)

\* extract_writing_style: {} for no texts, else the metrics (means in tenths).
extract_writing_style(texts) ==
  IF texts = <<>> THEN [empty |-> TRUE]
  ELSE
    LET n == Len(texts)
        tot(f) == SumSeq([i \in 1..n |-> texts[i].surface[f]])
    IN  [empty |-> FALSE,
         avg_tweet_length |-> RoundHalfEven(10 * tot("length"), n),
         avg_words |-> RoundHalfEven(10 * tot("words"), n),
         uses_punctuation |-> tot("punct") > 2 * n,
         uses_emojis |-> 2 * tot("emoji") > n,
         asks_questions |-> 10 * tot("questions") > n,
         enthusiastic |-> 10 * tot("exclaims") > 2 * n]

----------------------------------------------------------------------------
(* embeddings/service.py *)

\* The texts sent to the embedding model and the vector the loaded model
\* returns for each (self.model.encode is deterministic for a given text).
\* The vectors are non-zero, so that the cosine is a number.
EmbedTexts == {"a", "b", "c", "d"}

ModelEncode(text) ==
  CASE text = "a" -> <<5, 0>>
    [] text = "b" -> <<3, 4>>
    [] text = "c" -> <<3, -4>>
    [] OTHER      -> <<-4, 3>>

Dot(u, v) == SumSeq([i \in 1..Len(u) |-> u[i] * v[i]])

\* np.linalg.norm, exact on the model's vectors.
Norm(v) == CHOOSE r \in 0..Dot(v, v) : r * r = Dot(v, v)

\* np.dot(u, v) / (norm(u) * norm(v)), in thousandths.
Cosine(u, v) == (1000 * Dot(u, v)) \div (Norm(u) * Norm(v))

\* encode: the backend answers (up) or fails, and the failure is re-raised.
encode(text, up) == IF up THEN Ok(ModelEncode(text)) ELSE Raise

\* encode_batch: no call to the backend for an empty list.
encode_batch(texts, up) ==
  IF texts = <<>> THEN Ok(<<>>)
  ELSE IF up THEN Ok([i \in 1..Len(texts) |-> ModelEncode(texts[i])])
  ELSE Raise

Call(fn, ok) == [fn |-> fn, ok |-> ok]

SimilarityReraises == Raise

\* What the except clause of similarity does with a failure of encode:
\* return 0.0.
SimilarityOnFailure == Ok(0)

\* similarity: up1, up2 say whether the backend answers the two encode calls.
similarity(text1, text2, up1, up2) ==
  LET emb1 == encode(text1, up1)
      emb2 == encode(text2, up2)
  IN  IF emb1.raised
      THEN [result |-> SimilarityOnFailure, calls |-> <<Call("encode", FALSE)>>]
      ELSE IF emb2.raised
      THEN [result |-> SimilarityOnFailure,
            calls |-> <<Call("encode", TRUE), Call("encode", FALSE)>>]
      ELSE [result |-> Ok(Cosine(emb1.value, emb2.value)),
            calls |-> <<Call("encode", TRUE), Call("encode", TRUE)>>]

\* list.sort(key=lambda x: x[1], reverse=True): a stable sort, descending by
\* score; entries with equal scores keep their order.  Entries are
\* <<index, score>>.
RECURSIVE InsertDesc(_, _)
InsertDesc(x, sorted) ==
  IF sorted = <<>> THEN <<x>>
  ELSE IF sorted[1][2] >= x[2] THEN <<sorted[1]>> \o InsertDesc(x, Tail(sorted))
  ELSE <<x>> \o sorted

RECURSIVE SortDesc(_)
SortDesc(s) ==
  IF s = <<>> THEN <<>>
  ELSE InsertDesc(s[Len(s)], SortDesc(SubSeq(s, 1, Len(s) - 1)))

RECURSIVE InsertDescFirst(_, _)
InsertDescFirst(x, sorted) ==
  IF sorted = <<>> THEN <<x>>
  ELSE IF sorted[1][2] > x[2] THEN <<sorted[1]>> \o InsertDescFirst(x, Tail(sorted))
  ELSE <<x>> \o sorted

RECURSIVE SortDescTiesReversed(_)
SortDescTiesReversed(s) ==
  IF s = <<>> THEN <<>>
  ELSE InsertDescFirst(s[Len(s)], SortDescTiesReversed(SubSeq(s, 1, Len(s) - 1)))

SortBySimilarityTiesReversed(similarities) == SortDescTiesReversed(similarities)

\* similarities.sort(key=lambda x: x[1], reverse=True)
SortBySimilarity(similarities) == SortDesc(similarities)

SliceThrough(s, k) == SubSeq(s, 1, Min2(k + 1, Len(s)))

\* Python s[:k]: the first k entries, or all but the last -k for k < 0.
SliceTo(s, k) ==
  IF k >= 0 THEN SubSeq(s, 1, Min2(k, Len(s)))
  ELSE SubSeq(s, 1, Max2(Len(s) + k, 0))

CandidatesUnchecked(candidates) == FALSE

\* if not candidates: return []
NoCandidates(candidates) == candidates = <<>>

FindSimilarReraises == Raise

\* What the except clause of find_similar does with a failure: return [].
FindSimilarOnFailure == Ok(<<>>)

\* find_similar: upq, upb say whether the backend answers the query's encode
\* and the candidates' encode_batch.
find_similar(query, candidates, top_k, upq, upb) ==
  IF NoCandidates(candidates) THEN [result |-> Ok(<<>>), calls |-> <<>>]
  ELSE
    LET query_emb == encode(query, upq)
        candidate_embs == encode_batch(candidates, upb)
    IN  IF query_emb.raised
        THEN [result |-> FindSimilarOnFailure, calls |-> <<Call("encode", FALSE)>>]
        ELSE IF candidate_embs.raised
        THEN [result |-> FindSimilarOnFailure,
              calls |-> <<Call("encode", TRUE), Call("encode_batch", FALSE)>>]
        ELSE
          LET similarities ==
                [i \in 1..Len(candidate_embs.value) |->
                   <<i - 1, Cosine(query_emb.value, candidate_embs.value[i])>>]
          IN  [result |-> Ok(SliceTo(SortBySimilarity(similarities), top_k)),
               calls |-> <<Call("encode", TRUE), Call("encode_batch", TRUE)>>]

\* The label KMeans.fit_predict gives each of n samples, any of 0..k-1; with
\* fewer samples than clusters KMeans is not called and returns nothing.
Labelings(n, k) == IF n < k THEN {<<>>} ELSE [1..n -> 0..(k - 1)]

\* [[i] for i in range(len(texts))]
Singletons(texts) == [i \in 1..Len(texts) |-> <<i - 1>>]

\* The indices (0-based, ascending) of the samples labelled c.
RECURSIVE Members(_, _)
Members(labels, c) ==
  IF labels = <<>> THEN <<>>
  ELSE Members(SubSeq(labels, 1, Len(labels) - 1), c)
       \o (IF labels[Len(labels)] = c THEN <<Len(labels) - 1>> ELSE <<>>)

\* cluster_texts: up says whether the backend answers encode_batch, labels
\* is what KMeans returns.
cluster_texts(texts, n_clusters, up, labels) ==
  IF Len(texts) < n_clusters THEN [result |-> Ok(Singletons(texts)), calls |-> <<>>]
  ELSE IF encode_batch(texts, up).raised
  THEN [result |-> Ok(Singletons(texts)), calls |-> <<Call("encode_batch", FALSE)>>]
  ELSE [result |-> Ok([c \in 1..n_clusters |-> Members(labels, c - 1)]),
        calls |-> <<Call("encode_batch", TRUE), Call("kmeans", TRUE)>>]

----------------------------------------------------------------------------
(* learning/pattern_learner.py *)

\* A created_at value of a tweet or interaction: absent (None), a string
\* that is no ISO-8601 timestamp, or an ISO-8601 string giving a day (day 0
\* is a Monday), an hour and either the suffix "Z" or no offset (naive).
NoTime == [kind |-> "none", day |-> 0, hour |-> 0, tz |-> "naive"]

Malformed == [kind |-> "malformed", day |-> 0, hour |-> 0, tz |-> "naive"]

Iso(day, hour, tz) == [kind |-> "iso", day |-> day, hour |-> hour, tz |-> tz]

DayNames == <<"Monday", "Tuesday", "Wednesday", "Thursday", "Friday", "Saturday", "Sunday">>

\* created_at.strftime("%A")
DayName(t) == DayNames[(t.day % 7) + 1]

\* Hours since the start of day 0.
AbsHours(t) == 24 * t.day + t.hour

\* The first occurrences of the elements of s, in order: the key order of
\* Counter(s).
RECURSIVE FirstSeen(_)
FirstSeen(s) ==
  IF s = <<>> THEN <<>>
  ELSE LET front == FirstSeen(SubSeq(s, 1, Len(s) - 1))
       IN  IF s[Len(s)] \in Range(front) THEN front ELSE Append(front, s[Len(s)])

\* Counter(s).items()
CounterItems(s) == [i \in 1..Len(FirstSeen(s)) |-> <<FirstSeen(s)[i], Count(s, FirstSeen(s)[i])>>]

most_common_ties_reversed(s, n) ==
  LET top == SliceTo(SortDescTiesReversed(CounterItems(s)), n)
  IN  [i \in 1..Len(top) |-> top[i][1]]

\* [x for x, _ in Counter(s).most_common(n)]: by count descending, equal
\* counts in the order first encountered.
most_common(s, n) ==
  LET top == SliceTo(SortDesc(CounterItems(s)), n)
  IN  [i \in 1..Len(top) |-> top[i][1]]

NoneMalformed(tweets) == FALSE

\* datetime.fromisoformat(created_at.replace("Z", "+00:00")) fails on some
\* tweet.
AnyMalformed(tweets) == \E i \in 1..Len(tweets) : tweets[i].created_at.kind = "malformed"

\* The parsed timestamps of the tweets that carry one.
RECURSIVE Dated(_)
Dated(tweets) ==
  IF tweets = <<>> THEN <<>>
  ELSE (IF tweets[1].created_at.kind = "iso" THEN <<tweets[1].created_at>> ELSE <<>>)
       \o Dated(Tail(tweets))

SeqMax(s) == CHOOSE m \in Range(s) : \A x \in Range(s) : x <= m

SeqMin(s) == CHOOSE m \in Range(s) : \A x \in Range(s) : x >= m

\* date_range = (max(dates) - min(dates)).days, at least 1.
SpanFloor(date_range) == Max2(date_range, 1)

\* _calculate_date_range: comparing an offset-aware with a naive datetime
\* raises TypeError.
_calculate_date_range(tweets) ==
  LET dates == Dated(tweets)
      abs == [i \in 1..Len(dates) |-> AbsHours(dates[i])]
  IN  IF AnyMalformed(tweets) THEN Raise
      ELSE IF Len(dates) < 2 THEN Ok(1)
      ELSE IF \E i, j \in 1..Len(dates) : dates[i].tz # dates[j].tz THEN Raise
      ELSE Ok(SpanFloor((SeqMax(abs) - SeqMin(abs)) \div 24))

RoundAvgDown(total, days) == (100 * total) \div days

\* round(avg_per_day, 2), in hundredths.
RoundAvg(total, days) == RoundHalfEven(100 * total, days)

NoTweetsDivisionError == Raise

\* if not tweets: return {"best_hours": [], "best_days": [], "avg_per_day": 0}
\* (the key total_analyzed is absent).
NoTweetsPattern ==
  Ok([best_hours |-> <<>>, best_days |-> <<>>, avg_per_day |-> 0, total_analyzed |-> "absent"])

\* learn_posting_patterns
learn_posting_patterns(tweets) ==
  IF tweets = <<>> THEN NoTweetsPattern
  ELSE IF AnyMalformed(tweets) THEN Raise
  ELSE
    LET dates == Dated(tweets)
        hours == [i \in 1..Len(dates) |-> dates[i].hour]
        days == [i \in 1..Len(dates) |-> DayName(dates[i])]
        date_range == _calculate_date_range(tweets)
    IN  IF date_range.raised THEN Raise
        ELSE Ok([best_hours |-> most_common(hours, 5),
                 best_days |-> most_common(days, 3),
                 avg_per_day |-> RoundAvg(Len(tweets), Max2(date_range.value, 1)),
                 total_analyzed |-> Len(tweets)])

\* A tweet text is the sequence of its whitespace-separated tokens.
Lower(w) ==
  CASE w = "The" -> "the"
    [] w = "Cat" -> "cat"
    [] OTHER     -> w

Tokens(texts) == Flatten(texts)

\* TfidfVectorizer(max_features=100, stop_words="english"): the terms kept
\* are the lower-cased tokens of two or more characters outside the
\* library's English stop word list (the part of it the model's words touch).
EnglishStopWords == {"the", "a", "an", "and", "to", "is", "it"}

Vocabulary(texts) ==
  {Lower(w) : w \in {x \in Range(Tokens(texts)) : Len(x) >= 2 /\ Lower(x) \notin EnglishStopWords}}

\* self.tfidf.fit_transform(tweets): raises ValueError on an empty
\* vocabulary, else leaves the vectorizer fitted on the tweets' vocabulary.
TfidfFit(texts) == IF Vocabulary(texts) = {} THEN Raise ELSE Ok(Vocabulary(texts))

ProminenceRoundedUp(cluster_size, total) == (1000 * cluster_size + total - 1) \div total

\* round(float(cluster_size / len(tweets)), 3), in thousandths.
Prominence(cluster_size, total) == RoundHalfEven(1000 * cluster_size, total)

FittedNothing(vocab) == [vocabulary |-> {}]

\* The vectorizer after self.tfidf.fit_transform succeeded: fitted on the
\* vocabulary of the call's tweets, whatever it was fitted on before.
Fitted(vocab) == [vocabulary |-> vocab]

TooFewTweetsSingletons(tweets) == Singletons(tweets)

\* if len(tweets) < n_clusters: return []
TooFewTweets(tweets) == <<>>

\* learn_content_topics: labels is what KMeans.fit_predict returns.  The
\* keywords are the first five of the ten heaviest terms of the cluster
\* centre; the centre's weights are the library's, so the model keeps how
\* many keywords there are.  Returns the result and the vectorizer's state.
learn_content_topics(fitted, tweets, n_clusters, labels) ==
  IF Len(tweets) < n_clusters THEN [result |-> Ok(TooFewTweets(tweets)), tfidf |-> fitted]
  ELSE IF TfidfFit(tweets).raised THEN [result |-> Ok(<<>>), tfidf |-> fitted]
  ELSE
    LET vocab == TfidfFit(tweets).value
        topic(i) ==
          [cluster_id |-> i,
           n_keywords |-> Min2(5, Min2(10, Cardinality(vocab))),
           tweet_count |-> Count(labels, i),
           prominence |-> Prominence(Count(labels, i), Len(tweets))]
        keyed == [c \in 1..n_clusters |-> <<topic(c - 1), topic(c - 1).prominence>>]
        sorted == SortDesc(keyed)
    IN  [result |-> Ok([c \in 1..n_clusters |-> sorted[c][1]]),
         tfidf |-> Fitted(vocab)]

\* The 11 stop words of learn_vocabulary.
stop_words == {"the", "a", "an", "and", "or", "but", "in", "on", "at", "to", "for"}

\* The adjacent pairs of one tweet's lower-cased tokens.
Bigrams(tweet) == [i \in 1..(Len(tweet) - 1) |-> Lower(tweet[i]) \o " " \o Lower(tweet[i + 1])]

KeepEveryWord(item) == TRUE

\* if word not in stop_words and len(word) > 2
KeepWord(item) == item[1] \notin stop_words /\ Len(item[1]) > 2

\* learn_vocabulary: {} for no tweets.  The mean word length of no words
\* at all is numpy's nan.
learn_vocabulary(tweets) ==
  IF tweets = <<>> THEN [empty |-> TRUE]
  ELSE
    LET words == [i \in 1..Len(Tokens(tweets)) |-> Lower(Tokens(tweets)[i])]
        filtered_freq == SelectSeq(CounterItems(words), KeepWord)
        ranked == SliceTo(SortDesc(filtered_freq), 20)
        bigrams == Flatten([i \in 1..Len(tweets) |-> Bigrams(tweets[i])])
    IN  [empty |-> FALSE,
         unique_words |-> Cardinality(Range(words)),
         total_words |-> Len(words),
         common_words |-> [i \in 1..Len(ranked) |-> ranked[i][1]],
         common_phrases |-> most_common(bigrams, 10),
         avg_word_length_nan |-> words = <<>>,
         avg_word_length |->
           IF words = <<>> THEN 0
           ELSE RoundHalfEven(100 * SumSeq([i \in 1..Len(words) |-> Len(words[i])]), Len(words))]

\* The created_at values an interaction loop parses.
RECURSIVE DatedInteractions(_)
DatedInteractions(interactions) ==
  IF interactions = <<>> THEN <<>>
  ELSE (IF interactions[1].created_at.kind = "iso" THEN <<interactions[1].created_at>> ELSE <<>>)
       \o DatedInteractions(Tail(interactions))

\* The days spanned by the interactions' timestamps, at least 1.
engagement_days_observed(interactions) ==
  LET dated == DatedInteractions(interactions)
      abs == [i \in 1..Len(dated) |-> AbsHours(dated[i])]
  IN  IF dated = <<>> THEN 1 ELSE Max2((SeqMax(abs) - SeqMin(abs)) \div 24, 1)

\* The divisor of "avg_per_day": len(interactions) / 30.
engagement_days(interactions) == 30

\* learn_engagement_patterns: {} for no interactions; avg_per_day is
\* len(interactions) / 30, kept as the fraction.
learn_engagement_patterns(interactions) ==
  IF interactions = <<>> THEN Ok([empty |-> TRUE])
  ELSE IF AnyMalformed(interactions) THEN Raise
  ELSE
    LET types == [i \in 1..Len(interactions) |-> interactions[i].interaction_type]
        dated == DatedInteractions(interactions)
        hours == [i \in 1..Len(dated) |-> dated[i].hour]
    IN  Ok([empty |-> FALSE,
            total_interactions |-> Len(interactions),
            by_type |-> CounterItems(types),
            most_engaging_hours |-> most_common(hours, 5),
            avg_per_day |-> [num |-> Len(interactions), den |-> engagement_days(interactions)]])

\* The model's words in the order of get_feature_names_out (alphabetical).
FeatureOrder == <<"cat", "dog", "sat">>

\* The words of the interactions' metadata texts longer than 3 characters.
RECURSIVE InteractionWords(_)
InteractionWords(interactions) ==
  IF interactions = <<>> THEN <<>>
  ELSE LET text == interactions[1].text
           lowered == [i \in 1..Len(text) |-> Lower(text[i])]
           LongWord(w) == Len(w) > 3
       IN  SelectSeq(lowered, LongWord) \o InteractionWords(Tail(interactions))

\* Mean TF-IDF scores the library may report for a term, in thousandths:
\* one below and one above the 0.1 threshold.
TfidfMeans == {50, 400}

\* identify_interests: avg_scores gives the mean TF-IDF score of each fitted
\* term (the library's numbers), in thousandths.  A failing fit is logged
\* and skipped.  Returns the result and the vectorizer's state.
identify_interests(fitted, tweets, interactions, avg_scores) ==
  LET fit == TfidfFit(tweets)
      fit_ok == tweets # <<>> /\ ~fit.raised
      IsTerm(w) == fit_ok /\ w \in fit.value /\ avg_scores[w] > 100
      from_tweets == SelectSeq(FeatureOrder, IsTerm)
      liked == InteractionWords(interactions)
      keys == FirstSeen(from_tweets \o liked)
      weight(w) == (IF IsTerm(w) THEN avg_scores[w] ELSE 0) + 100 * Count(liked, w)
      items == [i \in 1..Len(keys) |-> <<keys[i], weight(keys[i])>>]
  IN  [result |-> Ok(SliceTo(SortDesc(items), 15)),
       tfidf |-> IF fit_ok THEN Fitted(fit.value) ELSE fitted]

----------------------------------------------------------------------------
(* main.py: the request handlers *)

NoResp == [kind |-> "none"]

\* PatternLearner.__init__: the vectorizer before any fit.
Unfitted == [vocabulary |-> {}]

AnalyzeRequests ==
  {[op |-> "analyze_personality", texts |-> ts] : ts \in SeqsUpTo(SampleTexts, MaxTexts)}

\* created_at values of the requests.
Hours == {9, 14}

Times ==
  {NoTime, Malformed, Iso(0, 9, "naive")}
  \cup {Iso(d, h, "Z") : d \in 0..MaxDay, h \in Hours}

\* Tweet texts (token sequences) of the requests.
DocTexts == {<<>>, <<"the", "cat", "sat">>, <<"The", "dog", "sat">>}

\* Calls of learn_posting_patterns.
PostingRequests ==
  {[op |-> "learn_posting_patterns", tweets |-> tw] :
     tw \in SeqsUpTo({[created_at |-> t, text |-> <<>>] : t \in Times}, MaxTweets)}

\* Calls of learn_content_topics.
TopicRequests ==
  {[op |-> "learn_content_topics", tweets |-> d, n_clusters |-> k] :
     d \in SeqsUpTo(DocTexts, MaxDocs), k \in 1..MaxClusters}

\* Calls of cluster_texts.
ClusterRequests ==
  {[op |-> "cluster_texts", texts |-> t, n_clusters |-> k] :
     t \in SeqsUpTo({"a", "b"}, MaxDocs), k \in 1..MaxClusters}

\* Calls of similarity.
SimilarityRequests == {[op |-> "similarity", text1 |-> a, text2 |-> b] : a, b \in EmbedTexts}

\* Bodies of POST /generate-embedding.
EmbeddingRequests == {[op |-> "generate_embedding", text |-> a] : a \in EmbedTexts}

\* Bodies of POST /find-similar.
FindSimilarRequests ==
  {[op |-> "find_similar", query |-> q, candidates |-> c, top_k |-> k] :
     q \in EmbedTexts, c \in SeqsUpTo(EmbedTexts, MaxCands), k \in (-1)..MaxTopK}

\* Bodies of POST /learn-patterns.  interactions: absent (given = FALSE) or
\* a list.
RequestTweets ==
  {[created_at |-> NoTime, text |-> <<>>],
   [created_at |-> Malformed, text |-> <<"the", "cat", "sat">>],
   [created_at |-> Iso(0, 14, "Z"), text |-> <<"the", "cat", "sat">>],
   [created_at |-> Iso(1, 9, "Z"), text |-> <<"The", "dog", "sat">>]}

RequestInteractions ==
  {[interaction_type |-> "like", created_at |-> Iso(0, 14, "Z"), text |-> <<"great", "cat">>],
   [interaction_type |-> "reply", created_at |-> Malformed, text |-> <<>>]}

\* Calls of learn_engagement_patterns.
EngagementTimes == {NoTime, Malformed, Iso(0, 9, "Z"), Iso(0, 14, "naive"), Iso(MaxDay, 14, "Z")}

EngagementRequests ==
  {[op |-> "learn_engagement_patterns", interactions |-> il] :
     il \in SeqsUpTo({[interaction_type |-> ty, created_at |-> t, text |-> <<>>] :
                        ty \in {"like", "reply"}, t \in EngagementTimes}, MaxEngagements)}

\* Calls of learn_vocabulary; tweet_texts is its list of tweet texts.
VocabTexts ==
  {<<>>, <<"the", "cat", "sat">>, <<"the", "dog", "sat">>, <<"The", "Cat", "is", "on">>}

VocabularyRequests ==
  {[op |-> "learn_vocabulary", tweet_texts |-> tw] : tw \in SeqsUpTo(VocabTexts, MaxDocs)}

\* Calls of get_personality_description: scores on and next to the two
\* thresholds, in thousandths.
DescriptionScores == {399, 400, 600, 601}

DescriptionRequests ==
  {[op |-> "get_personality_description", scores |-> sc] :
     sc \in [Range(Traits) -> DescriptionScores]}

LearnRequests ==
  {[op |-> "learn_patterns", tweets |-> tw, interactions |-> [given |-> g, list |-> il]] :
     tw \in SeqsUpTo(RequestTweets, MaxReqTweets),
     g \in BOOLEAN,
     il \in SeqsUpTo(RequestInteractions, MaxInteractions)}

Requests ==
  AnalyzeRequests \cup PostingRequests \cup TopicRequests \cup ClusterRequests
  \cup SimilarityRequests \cup EmbeddingRequests \cup FindSimilarRequests
  \cup EngagementRequests \cup VocabularyRequests \cup DescriptionRequests
  \cup {r \in LearnRequests : r.interactions.given \/ r.interactions.list = <<>>}

Init ==
  /\ req \in Requests
  /\ phase = "received"
  /\ outcome = "none"
  /\ resp = NoResp
  /\ calls = <<>>
  /\ tfidf = Unfitted

HttpError == [kind |-> "http_500"]

\* POST /analyze-personality
AnalyzePersonality ==
  /\ phase = "received"
  /\ req.op = "analyze_personality"
  /\ \E tagger_ok \in BOOLEAN :
       LET scores == analyze_texts(req.texts, tagger_ok)
       IN  /\ calls' = [i \in 1..scores.extracted |-> "extract_features"]
           /\ IF scores.raised
              THEN /\ outcome' = "error"
                   /\ resp' = HttpError
              ELSE /\ outcome' = "ok"
                   /\ resp' = [kind |-> "personality",
                               personality_scores |-> scores.value,
                               description |-> get_personality_description(scores.value),
                               writing_style |-> extract_writing_style(req.texts)]
  /\ phase' = "responded"
  /\ UNCHANGED <<req, tfidf>>

\* The default n_clusters of learn_content_topics.
DefaultClusters == 5

\* The body of learn_patterns' try block: the first failing call ends it.
learn_patterns_body(fitted, tweets, interactions, labels, avg_scores) ==
  LET posting_patterns == learn_posting_patterns(tweets)
      tweet_texts == [i \in 1..Len(tweets) |-> tweets[i].text]
      content_topics == learn_content_topics(fitted, tweet_texts, DefaultClusters, labels)
      vocabulary == learn_vocabulary(tweet_texts)
      interests == identify_interests(content_topics.tfidf, tweet_texts, interactions.list, avg_scores)
      engagement_patterns ==
        IF interactions.list # <<>> THEN learn_engagement_patterns(interactions.list)
        ELSE Ok([none |-> TRUE])
  IN  IF posting_patterns.raised THEN [result |-> Raise, tfidf |-> fitted]
      ELSE IF engagement_patterns.raised THEN [result |-> Raise, tfidf |-> interests.tfidf]
      ELSE [result |-> Ok([kind |-> "patterns",
                           posting_patterns |-> posting_patterns.value,
                           content_topics |-> content_topics.result.value,
                           engagement_patterns |-> engagement_patterns.value,
                           vocabulary |-> vocabulary,
                           interests |-> interests.result.value]),
            tfidf |-> interests.tfidf]

\* POST /learn-patterns
LearnPatterns ==
  /\ phase = "received"
  /\ req.op = "learn_patterns"
  /\ LET texts == [i \in 1..Len(req.tweets) |-> req.tweets[i].text]
     IN  \E labels \in Labelings(Len(req.tweets), DefaultClusters) :
         \E avg_scores \in [Vocabulary(texts) -> TfidfMeans] :
           LET r == learn_patterns_body(tfidf, req.tweets, req.interactions, labels, avg_scores)
           IN  /\ tfidf' = r.tfidf
               /\ outcome' = IF r.result.raised THEN "error" ELSE "ok"
               /\ resp' = IF r.result.raised THEN HttpError ELSE r.result.value
  /\ phase' = "responded"
  /\ UNCHANGED <<req, calls>>

\* POST /generate-embedding
GenerateEmbedding ==
  /\ phase = "received"
  /\ req.op = "generate_embedding"
  /\ \E up \in BOOLEAN :
       LET embedding == encode(req.text, up)
       IN  /\ calls' = <<Call("encode", up)>>
           /\ outcome' = IF embedding.raised THEN "error" ELSE "ok"
           /\ resp' = IF embedding.raised THEN HttpError
                      ELSE [kind |-> "embedding", embedding |-> embedding.value]
  /\ phase' = "responded"
  /\ UNCHANGED <<req, tfidf>>

\* The handler's list comprehension: request.candidates[idx] raises
\* IndexError for an index outside the list.
FormatResults(results, candidates) ==
  IF \E i \in 1..Len(results) : results[i][1] \notin 0..(Len(candidates) - 1) THEN Raise
  ELSE Ok([i \in 1..Len(results) |->
             [index |-> results[i][1],
              text |-> candidates[results[i][1] + 1],
              similarity |-> results[i][2]]])

\* POST /find-similar
FindSimilar ==
  /\ phase = "received"
  /\ req.op = "find_similar"
  /\ \E upq, upb \in BOOLEAN :
       LET found == find_similar(req.query, req.candidates, req.top_k, upq, upb)
           formatted == IF found.result.raised THEN Raise
                        ELSE FormatResults(found.result.value, req.candidates)
       IN  /\ calls' = found.calls
           /\ outcome' = IF formatted.raised THEN "error" ELSE "ok"
           /\ resp' = IF formatted.raised THEN HttpError
                      ELSE [kind |-> "similarity", results |-> formatted.value]
  /\ phase' = "responded"
  /\ UNCHANGED <<req, tfidf>>

\* A call of a method that is no HTTP handler returns its value or raises.
Returned(r) == IF r.raised THEN [kind |-> "raised"] ELSE [kind |-> "value", value |-> r.value]

\* embedding_service.similarity(text1, text2)
Similarity ==
  /\ phase = "received"
  /\ req.op = "similarity"
  /\ \E up1, up2 \in BOOLEAN :
       LET r == similarity(req.text1, req.text2, up1, up2)
       IN  /\ calls' = r.calls
           /\ outcome' = IF r.result.raised THEN "error" ELSE "ok"
           /\ resp' = Returned(r.result)
  /\ phase' = "responded"
  /\ UNCHANGED <<req, tfidf>>

\* embedding_service.cluster_texts(texts, n_clusters)
ClusterTexts ==
  /\ phase = "received"
  /\ req.op = "cluster_texts"
  /\ \E up \in BOOLEAN :
     \E labels \in Labelings(Len(req.texts), req.n_clusters) :
       LET r == cluster_texts(req.texts, req.n_clusters, up, labels)
       IN  /\ calls' = r.calls
           /\ outcome' = IF r.result.raised THEN "error" ELSE "ok"
           /\ resp' = Returned(r.result)
  /\ phase' = "responded"
  /\ UNCHANGED <<req, tfidf>>

\* pattern_learner.learn_content_topics(tweets, n_clusters)
LearnContentTopics ==
  /\ phase = "received"
  /\ req.op = "learn_content_topics"
  /\ \E labels \in Labelings(Len(req.tweets), req.n_clusters) :
       LET r == learn_content_topics(tfidf, req.tweets, req.n_clusters, labels)
       IN  /\ tfidf' = r.tfidf
           /\ outcome' = IF r.result.raised THEN "error" ELSE "ok"
           /\ resp' = Returned(r.result)
  /\ phase' = "responded"
  /\ UNCHANGED <<req, calls>>

\* pattern_learner.learn_posting_patterns(tweets)
LearnPostingPatterns ==
  /\ phase = "received"
  /\ req.op = "learn_posting_patterns"
  /\ LET r == learn_posting_patterns(req.tweets)
     IN  /\ outcome' = IF r.raised THEN "error" ELSE "ok"
         /\ resp' = Returned(r)
  /\ phase' = "responded"
  /\ UNCHANGED <<req, calls, tfidf>>

\* pattern_learner.learn_engagement_patterns(interactions)
LearnEngagementPatterns ==
  /\ phase = "received"
  /\ req.op = "learn_engagement_patterns"
  /\ LET r == learn_engagement_patterns(req.interactions)
     IN  /\ outcome' = IF r.raised THEN "error" ELSE "ok"
         /\ resp' = Returned(r)
  /\ phase' = "responded"
  /\ UNCHANGED <<req, calls, tfidf>>

\* pattern_learner.learn_vocabulary(tweets)
LearnVocabulary ==
  /\ phase = "received"
  /\ req.op = "learn_vocabulary"
  /\ outcome' = "ok"
  /\ resp' = Returned(Ok(learn_vocabulary(req.tweet_texts)))
  /\ phase' = "responded"
  /\ UNCHANGED <<req, calls, tfidf>>

\* personality_analyzer.get_personality_description(scores)
GetPersonalityDescription ==
  /\ phase = "received"
  /\ req.op = "get_personality_description"
  /\ outcome' = "ok"
  /\ resp' = Returned(Ok(get_personality_description(req.scores)))
  /\ phase' = "responded"
  /\ UNCHANGED <<req, calls, tfidf>>

Next ==
  \/ AnalyzePersonality
  \/ LearnPatterns
  \/ GenerateEmbedding
  \/ FindSimilar
  \/ Similarity
  \/ ClusterTexts
  \/ LearnContentTopics
  \/ LearnPostingPatterns
  \/ LearnEngagementPatterns
  \/ LearnVocabulary
  \/ GetPersonalityDescription

Spec == Init /\ [][Next]_vars

----------------------------------------------------------------------------
(* Properties *)

Done(opname) == phase = "responded" /\ req.op = opname

Failed(call) == ~call.ok

SomeCallFailed == \E i \in 1..Len(calls) : Failed(calls[i])

\* C1: the mapping analyze_texts returns has exactly the five trait keys and
\* every score lies in [0, 1] (0..1000 thousandths), whatever the texts.
C1_TraitScoresInUnitInterval ==
  (Done("analyze_personality") /\ outcome = "ok") =>
    /\ DOMAIN resp.personality_scores =
         {"openness", "conscientiousness", "extraversion", "agreeableness", "neuroticism"}
    /\ \A t \in DOMAIN resp.personality_scores :
         resp.personality_scores[t] >= 0 /\ resp.personality_scores[t] <= 1000

\* A non-empty collection whose agreeableness score had to be cut down to 1.
C1_Witness ==
  /\ Done("analyze_personality") /\ outcome = "ok"
  /\ req.texts # <<>>
  /\ resp.personality_scores["agreeableness"] = 1000
  /\ resp.personality_scores["neuroticism"] < 500

\* C2: analyze_texts of an empty collection returns exactly openness,
\* conscientiousness, extraversion, agreeableness = 0.5 and neuroticism =
\* 0.3, and makes no call of the feature extractor.
C2_EmptyGivesDefault ==
  (Done("analyze_personality") /\ req.texts = <<>>) =>
    /\ outcome = "ok"
    /\ resp.personality_scores =
         [openness |-> 500, conscientiousness |-> 500, extraversion |-> 500,
          agreeableness |-> 500, neuroticism |-> 300]
    /\ calls = <<>>

C2_Witness ==
  /\ Done("analyze_personality") /\ req.texts = <<>>
  /\ outcome = "ok"
  /\ resp.personality_scores["neuroticism"] = 300

\* C3: the list find_similar returns is sorted by descending score, and
\* entries with equal scores are in ascending candidate index order.
C3_SortedDescendingStable ==
  (Done("find_similar") /\ outcome = "ok") =>
    \A i, j \in 1..Len(resp.results) :
      i < j =>
        \/ resp.results[i].similarity > resp.results[j].similarity
        \/ /\ resp.results[i].similarity = resp.results[j].similarity
           /\ resp.results[i].index < resp.results[j].index

\* A result that holds a tie and, elsewhere, a later candidate ranked first.
C3_Witness ==
  /\ Done("find_similar") /\ outcome = "ok"
  /\ \E i, j \in 1..Len(resp.results) :
       i < j /\ resp.results[i].similarity = resp.results[j].similarity
  /\ \E i, j \in 1..Len(resp.results) :
       i < j /\ resp.results[i].index > resp.results[j].index

\* C4: find_similar with no candidates returns an empty list as a normal
\* result, for every query and top_k, without calling the embedding backend.
C4_NoCandidatesEmptyResult ==
  (Done("find_similar") /\ req.candidates = <<>>) =>
    /\ outcome = "ok"
    /\ resp.results = <<>>
    /\ calls = <<>>

C4_Witness ==
  /\ Done("find_similar") /\ req.candidates = <<>> /\ req.top_k > 0
  /\ outcome = "ok" /\ resp.results = <<>>

\* C5 as stated: learn_content_topics called with fewer texts than k returns
\* exactly len(texts) clusters, each a singleton.
C5_SingletonTopics ==
  (Done("learn_content_topics") /\ Len(req.tweets) < req.n_clusters) =>
    /\ outcome = "ok"
    /\ Len(resp.value) = Len(req.tweets)
    /\ \A i \in 1..Len(resp.value) : resp.value[i].tweet_count = 1

\* C5 amended: learn_content_topics called with fewer texts than k returns
\* an empty list of topics, as a normal result and without fitting the
\* vectorizer; it is cluster_texts that, called with fewer texts than k,
\* returns exactly len(texts) singleton clusters, one per text index.
C5_TooFewGivesNoTopics ==
  /\ (Done("learn_content_topics") /\ Len(req.tweets) < req.n_clusters) =>
       outcome = "ok" /\ resp.value = <<>> /\ tfidf = Unfitted
  /\ (Done("cluster_texts") /\ Len(req.texts) < req.n_clusters) =>
       /\ outcome = "ok"
       /\ Len(resp.value) = Len(req.texts)
       /\ \A i \in 1..Len(resp.value) : resp.value[i] = <<i - 1>>

C5_Witness ==
  /\ Done("learn_content_topics")
  /\ Len(req.tweets) > 0 /\ Len(req.tweets) < req.n_clusters
  /\ outcome = "ok" /\ resp.value = <<>>

\* The topics were computed: enough tweets and a successful fit.
TopicsComputed ==
  /\ Done("learn_content_topics") /\ outcome = "ok"
  /\ Len(req.tweets) >= req.n_clusters
  /\ resp.value # <<>>

ProminenceSum == SumSeq([i \in 1..Len(resp.value) |-> resp.value[i].prominence])

\* C6 as stated: the rounded prominence values sum to 1.0 within 1e-6
\* (values are whole thousandths, so the sum is exactly 1000).
C6_ProminenceSumsToOne == TopicsComputed => ProminenceSum = 1000

\* C6 amended: the member counts sum to the number of texts, and the rounded
\* prominence values sum to 1.0 within 0.0005 per cluster (0.0005 * k).
C6_ProminenceSumNearOne ==
  TopicsComputed =>
    /\ SumSeq([i \in 1..Len(resp.value) |-> resp.value[i].tweet_count]) = Len(req.tweets)
    /\ 2 * (ProminenceSum - 1000) <= req.n_clusters
    /\ 2 * (1000 - ProminenceSum) <= req.n_clusters

C6_Witness == TopicsComputed /\ ProminenceSum # 1000

\* C7: if the embedding call fails for either text, similarity returns 0.0
\* as a normal result and raises nothing.
C7_SimilarityZeroOnFailure ==
  (Done("similarity") /\ SomeCallFailed) => (outcome = "ok" /\ resp.value = 0)

\* The first text was embedded and the second call failed.
C7_Witness ==
  /\ Done("similarity") /\ Len(calls) = 2 /\ Failed(calls[2])
  /\ outcome = "ok" /\ resp.value = 0

\* C8 as stated: a backend failure during find_similar with candidates ends
\* the /find-similar request in the error outcome.
C8_BackendFailureIsError ==
  (Done("find_similar") /\ req.candidates # <<>> /\ SomeCallFailed) => outcome = "error"

\* C8 amended: a backend failure during find_similar with candidates is
\* caught by find_similar, which returns an empty list: the /find-similar
\* request ends successfully with an empty result list.
C8_BackendFailureIsEmptyResult ==
  (Done("find_similar") /\ req.candidates # <<>> /\ SomeCallFailed) =>
    (outcome = "ok" /\ resp.results = <<>>)

\* The query was embedded, the candidates' batch failed, top_k asks for some.
C8_Witness ==
  /\ Done("find_similar") /\ req.candidates # <<>> /\ req.top_k > 0
  /\ Len(calls) = 2 /\ Failed(calls[2])
  /\ outcome = "ok" /\ resp.results = <<>>

\* C9: empty input is never an error.  analyze_personality with no texts
\* gives the default traits and empty style metrics; learn_patterns with no
\* tweets and no interactions (absent or empty) gives an empty posting
\* pattern with avg_per_day 0, no topics, an empty vocabulary, no interests
\* and no engagement pattern.
C9_EmptyInputNeverError ==
  /\ (Done("analyze_personality") /\ req.texts = <<>>) =>
       /\ outcome = "ok"
       /\ resp.personality_scores["neuroticism"] = 300
       /\ resp.writing_style.empty
  /\ (Done("learn_patterns") /\ req.tweets = <<>> /\ req.interactions.list = <<>>) =>
       /\ outcome = "ok"
       /\ resp.posting_patterns.best_hours = <<>>
       /\ resp.posting_patterns.best_days = <<>>
       /\ resp.posting_patterns.avg_per_day = 0
       /\ resp.content_topics = <<>>
       /\ resp.vocabulary.empty
       /\ resp.interests = <<>>
       /\ resp.engagement_patterns = [none |-> TRUE]

\* learn_patterns served with tweets = [] and interactions = [].
C9_Witness ==
  /\ Done("learn_patterns") /\ req.tweets = <<>>
  /\ req.interactions.given /\ req.interactions.list = <<>>
  /\ outcome = "ok" /\ resp.interests = <<>>

\* Every tweet carries a well-formed timestamp.
AllTimestamped == \A i \in 1..Len(req.tweets) : req.tweets[i].created_at.kind = "iso"

\* All timestamps are offset-aware, or all are naive.
SameOffsetKind ==
  \A i, j \in 1..Len(req.tweets) : req.tweets[i].created_at.tz = req.tweets[j].created_at.tz

\* max(whole days between the earliest and the latest timestamp, 1)
SpanDays ==
  LET abs == [i \in 1..Len(req.tweets) |-> AbsHours(req.tweets[i].created_at)]
  IN  Max2((SeqMax(abs) - SeqMin(abs)) \div 24, 1)

SameDay == \A i \in 1..Len(req.tweets) : req.tweets[i].created_at.day = req.tweets[1].created_at.day

SameHour == \A i \in 1..Len(req.tweets) : req.tweets[i].created_at.hour = req.tweets[1].created_at.hour

C10_SameDayWitness ==
  /\ Done("learn_posting_patterns") /\ outcome = "ok"
  /\ Len(req.tweets) >= 2 /\ AllTimestamped /\ SameDay /\ SameHour
  /\ req.tweets[1].created_at = Iso(0, 14, "Z")
  /\ resp.value.best_hours = <<14>> /\ resp.value.best_days = <<"Monday">>
  /\ resp.value.avg_per_day = 100 * Len(req.tweets)

\* The hours of the samples that carry a timestamp, in the order supplied.
HoursSupplied ==
  LET dated == SelectSeq(req.tweets, LAMBDA t : t.created_at.kind = "iso")
  IN  [i \in 1..Len(dated) |-> dated[i].created_at.hour]

HourFrequency(h) == Cardinality({i \in 1..Len(HoursSupplied) : HoursSupplied[i] = h})

FirstSupplied(h) == CHOOSE i \in 1..Len(HoursSupplied) :
  HoursSupplied[i] = h /\ \A j \in 1..(i - 1) : HoursSupplied[j] # h

PostingPatternReturned ==
  Done("learn_posting_patterns") /\ outcome = "ok" /\ req.tweets # <<>>

\* C11 as stated: best_hours is in descending frequency, hours of equal
\* frequency in ascending numeric order, whatever the order of the samples.
C11_TiesByHourAscending ==
  PostingPatternReturned =>
    \A i, j \in 1..Len(resp.value.best_hours) :
      i < j =>
        LET a == resp.value.best_hours[i]
            b == resp.value.best_hours[j]
        IN  \/ HourFrequency(a) > HourFrequency(b)
            \/ HourFrequency(a) = HourFrequency(b) /\ a < b

\* C11 amended: best_hours lists the distinct hours in descending frequency,
\* hours of equal frequency in the order in which they first occur in the
\* samples supplied.
C11_TiesByFirstEncounter ==
  PostingPatternReturned =>
    /\ Cardinality(Range(HoursSupplied)) <= 5 => Range(resp.value.best_hours) = Range(HoursSupplied)
    /\ \A i, j \in 1..Len(resp.value.best_hours) :
         i < j =>
           LET a == resp.value.best_hours[i]
               b == resp.value.best_hours[j]
           IN  \/ HourFrequency(a) > HourFrequency(b)
               \/ /\ HourFrequency(a) = HourFrequency(b)
                  /\ FirstSupplied(a) < FirstSupplied(b)

\* Hour 14 supplied before hour 9, once each: best_hours = [14, 9].
C11_Witness ==
  /\ PostingPatternReturned
  /\ HoursSupplied = <<14, 9>>
  /\ resp.value.best_hours = <<14, 9>>

\* No interaction carries a created_at string that fails to parse.
EngagementTimesParse ==
  \A i \in 1..Len(req.interactions) : req.interactions[i].created_at.kind # "malformed"

\* C12: for a non-empty interaction collection, avg_per_day is the number
\* of interactions divided by 30, whatever timestamps they carry.
C12_EngagementAvgOverThirty ==
  (Done("learn_engagement_patterns") /\ req.interactions # <<>> /\ EngagementTimesParse) =>
    /\ outcome = "ok"
    /\ resp.value.total_interactions = Len(req.interactions)
    /\ resp.value.avg_per_day.num * 30 = Len(req.interactions) * resp.value.avg_per_day.den

\* Interactions several days apart, still divided by 30.
C12_Witness ==
  /\ Done("learn_engagement_patterns") /\ outcome = "ok"
  /\ Len(req.interactions) >= 2
  /\ \E i, j \in 1..Len(req.interactions) :
       /\ req.interactions[i].created_at.kind = "iso"
       /\ req.interactions[j].created_at.kind = "iso"
       /\ req.interactions[j].created_at.day - req.interactions[i].created_at.day >= 3
  /\ resp.value.avg_per_day = [num |-> Len(req.interactions), den |-> 30]

\* The lower-cased whitespace tokens of the supplied tweets, as a set, and
\* how many tokens there are.
SuppliedWords == {Lower(req.tweet_texts[i][j]) : <<i, j>> \in {p \in (1..Len(req.tweet_texts)) \X (1..4) : p[2] <= Len(req.tweet_texts[p[1]])}}

SuppliedWordCount == SumSeq([i \in 1..Len(req.tweet_texts) |-> Len(req.tweet_texts[i])])

\* C13: for a non-empty text collection, common_words holds no word of the
\* 11-word stop list and no token of length <= 2, while unique_words and
\* total_words count every lower-cased token; ["the cat sat", "the dog sat"]
\* leaves "the" out of common_words and keeps "cat", "sat" and "dog".
C13_CommonWordsFiltered ==
  (Done("learn_vocabulary") /\ req.tweet_texts # <<>>) =>
    /\ outcome = "ok"
    /\ ~resp.value.empty
    /\ \A i \in 1..Len(resp.value.common_words) :
         /\ resp.value.common_words[i] \notin
              {"the", "a", "an", "and", "or", "but", "in", "on", "at", "to", "for"}
         /\ Len(resp.value.common_words[i]) > 2
         /\ resp.value.common_words[i] \in SuppliedWords
    /\ resp.value.unique_words = Cardinality(SuppliedWords)
    /\ resp.value.total_words = SuppliedWordCount
    /\ (req.tweet_texts = <<(<<"the", "cat", "sat">>), (<<"the", "dog", "sat">>)>>) =>
         /\ Range(resp.value.common_words) = {"cat", "sat", "dog"}
         /\ resp.value.unique_words = 4
         /\ resp.value.total_words = 6

\* The scenario's two tweets, and a collection with a capitalised stop word
\* and two-letter tokens.
C13_Witness ==
  /\ Done("learn_vocabulary")
  /\ req.tweet_texts = <<(<<"the", "cat", "sat">>), (<<"the", "dog", "sat">>)>>
  /\ resp.value.common_words = <<"sat", "cat", "dog">>
  /\ resp.value.unique_words = 4

C13_ShortTokensWitness ==
  /\ Done("learn_vocabulary")
  /\ req.tweet_texts = <<(<<"The", "Cat", "is", "on">>)>>
  /\ resp.value.common_words = <<"cat">>
  /\ resp.value.unique_words = 4 /\ resp.value.total_words = 4

\* The tweet texts of a learn_patterns request.
RequestTexts == [i \in 1..Len(req.tweets) |-> req.tweets[i].text]

C14_FailedRequestWitness ==
  /\ Done("learn_patterns") /\ outcome = "error"
  /\ tfidf # Unfitted

\* The canned phrase of each trait and whether the supplied scores cross
\* the trait's threshold.
CannedPhrase ==
  [t \in Range(Traits) |->
     CASE t = "openness" -> "creative and open to new experiences"
       [] t = "conscientiousness" -> "organized and detail-oriented"
       [] t = "extraversion" -> "outgoing and energetic"
       [] t = "agreeableness" -> "friendly and cooperative"
       [] t = "neuroticism" -> "emotionally stable"]

ThresholdCrossed(t) ==
  IF t = "neuroticism" THEN ~(req.scores[t] >= 400) ELSE ~(req.scores[t] <= 600)

CrossedPhrases ==
  LET crossed == SelectSeq(Traits, ThresholdCrossed)
  IN  [i \in 1..Len(crossed) |-> CannedPhrase[crossed[i]]]

\* C15: the description is "balanced and adaptable" if and only if no
\* threshold is crossed (the first four traits all <= 0.6 and neuroticism
\* >= 0.4); otherwise it is the canned phrases of exactly the crossed
\* thresholds, in trait order, joined by commas.
C15_DescriptionFromThresholds ==
  Done("get_personality_description") =>
    /\ outcome = "ok"
    /\ (resp.value = "balanced and adaptable") <=> (CrossedPhrases = <<>>)
    /\ (CrossedPhrases # <<>>) => resp.value = JoinComma(CrossedPhrases)

\* Scores exactly on the thresholds give the fallback; two crossed
\* thresholds give their two phrases in trait order.
C15_Witness ==
  /\ Done("get_personality_description")
  /\ req.scores = [t \in Range(Traits) |-> IF t = "neuroticism" THEN 400 ELSE 600]
  /\ resp.value = "balanced and adaptable"

C15_TwoPhrasesWitness ==
  /\ Done("get_personality_description")
  /\ req.scores["openness"] = 601 /\ req.scores["neuroticism"] = 399
  /\ resp.value = "creative and open to new experiences, emotionally stable"

\* The claim's formula on the supplied texts, as a fraction [num, den] of 1:
\* clamp(0.5 + 0.3 * (indicator lemmas / lemmas) + 0.2 * (indicator tags /
\* tags) + mean sentiment * weight, 0, 1), a zero total contributing 0.
LemmaTotal == SumSeq([i \in 1..Len(req.texts) |-> Len(req.texts[i].lemmas)])

IndicatorLemmas(t) ==
  SumSeq([i \in 1..Len(req.texts) |-> CountIn(req.texts[i].lemmas, TRAIT_INDICATORS[t].words)])

PosTotal == SumSeq([i \in 1..Len(req.texts) |-> Len(req.texts[i].pos)])

IndicatorPos(t) ==
  SumSeq([i \in 1..Len(req.texts) |-> CountIn(req.texts[i].pos, Range(TRAIT_INDICATORS[t].pos_tags))])

SentimentSum == SumSeq([i \in 1..Len(req.texts) |-> req.texts[i].sentiment])

ClaimedScore(t) ==
  LET n == Len(req.texts)
      L == IF LemmaTotal = 0 THEN 1 ELSE LemmaTotal
      P == IF PosTotal = 0 THEN 1 ELSE PosTotal
      den == 100 * n * L * P
      raw == 50 * n * L * P
             + (IF LemmaTotal = 0 THEN 0 ELSE 30 * IndicatorLemmas(t) * n * P)
             + (IF PosTotal = 0 THEN 0 ELSE 20 * IndicatorPos(t) * n * L)
             + SentimentSum * TRAIT_INDICATORS[t].sentiment_weight * L * P
  IN  [num |-> IF raw < 0 THEN 0 ELSE IF raw > den THEN den ELSE raw, den |-> den]

NonEmptyAnalysed == Done("analyze_personality") /\ outcome = "ok" /\ req.texts # <<>>

NothingToScore == LemmaTotal = 0 /\ PosTotal = 0 /\ SentimentSum = 0

\* C16 as stated: every score equals the clamped formula exactly.
C16_ScoreIsExactFormula ==
  NonEmptyAnalysed =>
    \A t \in Range(Traits) :
      resp.personality_scores[t] * ClaimedScore(t).den = 1000 * ClaimedScore(t).num

\* C16: for a non-empty collection every trait's score is the clamped
\* formula rounded to 3 decimals (within half a thousandth of it), the
\* default set is not used, and a collection with no lemmas, no POS tags
\* and mean sentiment 0 scores 0.5 on all five traits.
C16_ScoreIsRoundedFormula ==
  NonEmptyAnalysed =>
    /\ \A t \in Range(Traits) :
         LET d == resp.personality_scores[t] * ClaimedScore(t).den - 1000 * ClaimedScore(t).num
         IN  2 * d <= ClaimedScore(t).den /\ 2 * d >= -ClaimedScore(t).den
    /\ NothingToScore => \A t \in Range(Traits) : resp.personality_scores[t] = 500

\* A score whose formula value (2/3) is no whole number of thousandths.
C16_Witness ==
  /\ NonEmptyAnalysed
  /\ 3 * ClaimedScore("openness").num = 2 * ClaimedScore("openness").den
  /\ resp.personality_scores["openness"] = 667

\* Non-empty texts with nothing to score: neuroticism is 0.5, not 0.3.
C16_NothingToScoreWitness ==
  /\ NonEmptyAnalysed /\ NothingToScore
  /\ resp.personality_scores["neuroticism"] = 500

\* Some supplied tweet carries a created_at string that does not parse,
\* and some other one a timestamp that does.
MalformedSupplied == \E i \in 1..Len(req.tweets) : req.tweets[i].created_at.kind = "malformed"

ValidSupplied == \E i \in 1..Len(req.tweets) : req.tweets[i].created_at.kind = "iso"

\* C17: one tweet with a malformed timestamp string makes
\* learn_posting_patterns raise, with no pattern for the valid tweets, and
\* the enclosing learn_patterns request ends in the error outcome with no
\* sub-result (topics, vocabulary, interests, engagement) returned.
C17_MalformedTimestampAborts ==
  /\ (Done("learn_posting_patterns") /\ MalformedSupplied) =>
       outcome = "error" /\ resp = [kind |-> "raised"]
  /\ (Done("learn_patterns") /\ MalformedSupplied) =>
       outcome = "error" /\ resp = HttpError /\ tfidf = Unfitted

\* A learn_patterns request with one valid and one malformed tweet.
C17_Witness ==
  /\ Done("learn_patterns")
  /\ Len(req.tweets) = 2 /\ MalformedSupplied /\ ValidSupplied
  /\ resp = HttpError

\* learn_posting_patterns itself on two valid tweets and a malformed one.
C17_PostingWitness ==
  /\ Done("learn_posting_patterns")
  /\ Len(req.tweets) = 3 /\ MalformedSupplied
  /\ Cardinality({i \in 1..3 : req.tweets[i].created_at.kind = "iso"}) = 2
  /\ outcome = "error"

\* A find_similar request over a non-empty candidate list with top_k >= 0
\* in which every call of the embedding backend succeeded.
SuccessfulSearch ==
  /\ Done("find_similar")
  /\ req.candidates # <<>> /\ req.top_k >= 0
  /\ ~SomeCallFailed

\* C18: a successful find_similar over n >= 1 candidates with top_k >= 0
\* returns exactly min(top_k, n) pairs with pairwise distinct indices in
\* 0..n-1, so the handler's request.candidates[idx] lookup stays inside the
\* list and reports no candidate twice.
C18_TopKDistinctInRange ==
  SuccessfulSearch =>
    LET n == Len(req.candidates)
        results == resp.results
    IN  /\ outcome = "ok"
        /\ Len(results) = (IF req.top_k <= n THEN req.top_k ELSE n)
        /\ \A i \in 1..Len(results) :
             /\ results[i].index \in 0..(n - 1)
             /\ results[i].text = req.candidates[results[i].index + 1]
        /\ \A i, j \in 1..Len(results) : results[i].index = results[j].index => i = j

\* Fewer results asked for than there are candidates, two of the candidates
\* being the same text.
C18_Witness ==
  /\ SuccessfulSearch
  /\ Len(req.candidates) = 3 /\ req.top_k = 2
  /\ req.candidates[1] = req.candidates[2]
  /\ Len(resp.results) = 2
  /\ resp.results[1].index # resp.results[2].index

\* More results asked for than there are candidates.
C18_AllCandidatesWitness ==
  /\ SuccessfulSearch
  /\ Len(req.candidates) = 2 /\ req.top_k = 3
  /\ {resp.results[i].index : i \in 1..Len(resp.results)} = {0, 1}

====
